---- MODULE Spec2Model ----
(***************************************************************************)
(* Authorization and content-access model of the blog CMS:                 *)
(*   - the row policies (RLS) that the SQL migrations leave on             *)
(*     user_profiles, page_content_sections, page_seo_content and          *)
(*     content_templates, and the statements evaluated against them;       *)
(*   - the request middleware (onRequest) guarding /cms-admin and /admin.  *)
(***************************************************************************)
EXTENDS Integers, FiniteSets, Sequences, TLC

VARIABLES applied, policies, profiles, rows, reqs, cookies

vars == <<applied, policies, profiles, rows, reqs, cookies>>

(***************************************************************************)
(* Bounds and value domains                                                *)
(***************************************************************************)
\* number of content rows that can exist at the same time
MaxRows == 1
\* number of requests the middleware handles concurrently
MaxReqs == 1

\* identities known to the Credential Store (auth.users.id)
Users == {"U1", "U2", "U3"}
\* SQL NULL (also auth.uid() of a statement without a JWT)
NULL == "NULL"
\* the actor of a statement sent with the anon key only
ANON == "anon"
Actors == Users \cup {ANON}
\* the absence of a user_profiles row, and of a content row
NoProfile == [role |-> "none", is_active |-> FALSE, full_name |-> "none"]
NoRow == [tbl |-> "none", created_by |-> NULL, updated_by |-> NULL,
          is_active |-> FALSE, is_public |-> FALSE]
RowIds == 1..MaxRows

\* user_profiles.role CHECK (role IN ('admin', 'editor', 'viewer'))
Roles == {"admin", "editor", "viewer"}
\* values of user_profiles.full_name used by the model
Names == {"a", "b"}
\* the three CMS tables that carry created_by
ContentTables == {"page_content_sections", "page_seo_content", "content_templates"}

\* auth.uid(): the JWT subject, NULL for the anon role
Uid(actor) == IF actor = ANON THEN NULL ELSE actor
\* the database role a statement runs as
DbRole(actor) == IF actor = ANON THEN "anon" ELSE "authenticated"
\* SQL equality: NULL = x is never true
SqlEq(a, b) == a # NULL /\ b # NULL /\ a = b

(***************************************************************************)
(* Row policies created and dropped by the migrations                      *)
(***************************************************************************)
Pol(name, tbl, cmd, roles, using, check) ==
  [name |-> name, tbl |-> tbl, cmd |-> cmd, roles |-> roles,
   using |-> using, check |-> check]

BothRoles == {"anon", "authenticated"}
AuthOnly == {"authenticated"}

\* the tables of the blog and the policies the two blog migrations leave on
\* them (20260202130934_create_blog_cms_schema.sql, then
\* 20260202134640_fix_security_issues.sql); post_tags has no UPDATE policy
BlogTables == {"authors", "categories", "tags", "posts", "post_tags"}
BlogPolicies ==
  { Pol("Allow public read access", tbl, "SELECT", BothRoles, "true", "none") :
      tbl \in BlogTables }
  \cup
  { Pol("Authenticated users can insert", tbl, "INSERT", AuthOnly, "none", "true") :
      tbl \in BlogTables }
  \cup
  { Pol("Authenticated users can update", tbl, "UPDATE", AuthOnly, "true", "true") :
      tbl \in BlogTables \ {"post_tags"} }
  \cup
  { Pol("Authenticated users can delete", tbl, "DELETE", AuthOnly, "true", "none") :
      tbl \in BlogTables }

\* 20260202135235_create_cms_content_system.sql
CreateCmsPolicies ==
  { Pol("Public can read active sections", "page_content_sections", "SELECT", BothRoles, "is_active", "none"),
    Pol("Authenticated users can insert sections", "page_content_sections", "INSERT", AuthOnly, "none", "true"),
    Pol("Authenticated users can update sections", "page_content_sections", "UPDATE", AuthOnly, "true", "true"),
    Pol("Authenticated users can delete sections", "page_content_sections", "DELETE", AuthOnly, "true", "none"),
    Pol("Public can read SEO content", "page_seo_content", "SELECT", BothRoles, "true", "none"),
    Pol("Authenticated users can insert SEO content", "page_seo_content", "INSERT", AuthOnly, "none", "true"),
    Pol("Authenticated users can update SEO content", "page_seo_content", "UPDATE", AuthOnly, "true", "true"),
    Pol("Authenticated users can delete SEO content", "page_seo_content", "DELETE", AuthOnly, "true", "none"),
    Pol("Public can read public templates", "content_templates", "SELECT", BothRoles, "is_public", "none"),
    Pol("Authenticated users can manage templates", "content_templates", "ALL", AuthOnly, "true", "true") }

\* the "Add Authentication and Production-Level Security" migration
AddAuthDrops ==
  { <<"page_content_sections", "Public can read active sections">>,
    <<"page_content_sections", "Authenticated users can insert sections">>,
    <<"page_content_sections", "Authenticated users can update sections">>,
    <<"page_content_sections", "Authenticated users can delete sections">>,
    <<"page_seo_content", "Public can read SEO content">>,
    <<"page_seo_content", "Authenticated users can insert SEO content">>,
    <<"page_seo_content", "Authenticated users can update SEO content">>,
    <<"page_seo_content", "Authenticated users can delete SEO content">>,
    <<"content_templates", "Public can read public templates">>,
    <<"content_templates", "Authenticated users can manage templates">> }

AddAuthPolicies ==
  { Pol("Anyone can read active user profiles", "user_profiles", "SELECT", BothRoles, "is_active", "none"),
    Pol("Users can insert their own profile", "user_profiles", "INSERT", AuthOnly, "none", "uid_is_id"),
    Pol("Users can update their own profile", "user_profiles", "UPDATE", AuthOnly, "uid_is_id", "own_unprivileged"),
    Pol("Anyone can read active sections", "page_content_sections", "SELECT", BothRoles, "is_active", "none"),
    Pol("Authenticated users can create sections", "page_content_sections", "INSERT", AuthOnly, "none", "creator_and_editor"),
    Pol("Admin and editors can update any section, creators can update their own", "page_content_sections", "UPDATE", AuthOnly, "creator_or_editor", "creator_or_editor"),
    Pol("Admin and creators can delete sections", "page_content_sections", "DELETE", AuthOnly, "creator_or_admin", "none"),
    Pol("Anyone can read SEO content", "page_seo_content", "SELECT", BothRoles, "true", "none"),
    Pol("Authenticated users can create SEO content", "page_seo_content", "INSERT", AuthOnly, "none", "creator_and_editor"),
    Pol("Admin and editors can update any SEO content, creators can update their own", "page_seo_content", "UPDATE", AuthOnly, "creator_or_editor", "creator_or_editor"),
    Pol("Admin and creators can delete SEO content", "page_seo_content", "DELETE", AuthOnly, "creator_or_admin", "none"),
    Pol("Anyone can read public templates", "content_templates", "SELECT", BothRoles, "is_public", "none"),
    Pol("Authenticated users can read their own templates", "content_templates", "SELECT", AuthOnly, "creator", "none"),
    Pol("Authenticated users can create templates", "content_templates", "INSERT", AuthOnly, "none", "creator_and_editor"),
    Pol("Template creators and admins can update templates", "content_templates", "UPDATE", AuthOnly, "creator_or_admin", "creator_or_admin"),
    Pol("Template creators and admins can delete templates", "content_templates", "DELETE", AuthOnly, "creator_or_admin", "none") }

\* the "Fix CMS RLS Policies for Anonymous Access" migration
AnonAccessDrops ==
  { <<"page_content_sections", "Public can read active sections">>,
    <<"page_content_sections", "Authenticated users can insert sections">>,
    <<"page_content_sections", "Authenticated users can update sections">>,
    <<"page_content_sections", "Authenticated users can delete sections">>,
    <<"page_seo_content", "Authenticated users can read SEO content">>,
    <<"page_seo_content", "Authenticated users can insert SEO content">>,
    <<"page_seo_content", "Authenticated users can update SEO content">>,
    <<"page_seo_content", "Authenticated users can delete SEO content">>,
    <<"content_templates", "Public can read public templates">>,
    <<"content_templates", "Authenticated users can manage templates">>,
    <<"content_templates", "Authenticated users can insert templates">>,
    <<"content_templates", "Authenticated users can update templates">>,
    <<"content_templates", "Authenticated users can delete templates">> }

AnonAccessPolicies ==
  { Pol("Allow read all sections", "page_content_sections", "SELECT", BothRoles, "true", "none"),
    Pol("Allow insert sections", "page_content_sections", "INSERT", BothRoles, "none", "true"),
    Pol("Allow update sections", "page_content_sections", "UPDATE", BothRoles, "true", "true"),
    Pol("Allow delete sections", "page_content_sections", "DELETE", BothRoles, "true", "none"),
    Pol("Allow read SEO content", "page_seo_content", "SELECT", BothRoles, "true", "none"),
    Pol("Allow insert SEO content", "page_seo_content", "INSERT", BothRoles, "none", "true"),
    Pol("Allow update SEO content", "page_seo_content", "UPDATE", BothRoles, "true", "true"),
    Pol("Allow delete SEO content", "page_seo_content", "DELETE", BothRoles, "true", "none"),
    Pol("Allow read templates", "content_templates", "SELECT", BothRoles, "true", "none"),
    Pol("Allow insert templates", "content_templates", "INSERT", BothRoles, "none", "true"),
    Pol("Allow update templates", "content_templates", "UPDATE", BothRoles, "true", "true"),
    Pol("Allow delete templates", "content_templates", "DELETE", BothRoles, "true", "none") }

Migrations == {"create_cms", "add_auth", "anon_access"}

\* DROP POLICY IF EXISTS ... ; CREATE POLICY ... of one migration file
ApplyMigration(drops, creates, P) ==
  {p \in P : <<p.tbl, p.name>> \notin drops} \cup creates

\* the policy set after every migration has run (in either possible order)
DeployedPolicies ==
  ApplyMigration(AnonAccessDrops, AnonAccessPolicies,
    ApplyMigration(AddAuthDrops, AddAuthPolicies,
      ApplyMigration({}, CreateCmsPolicies, BlogPolicies)))

(***************************************************************************)
(* Evaluation of policy expressions                                        *)
(***************************************************************************)
\* the user_profiles row of identity u as a statement sees it
ProfileRow(u) ==
  [id |-> u, role |-> profiles[u].role, is_active |-> profiles[u].is_active,
   full_name |-> profiles[u].full_name]

\* expressions without a subquery
EvalSimple(expr, actor, row) ==
  CASE expr = "true" -> TRUE
    [] expr = "is_active" -> row.is_active = TRUE
    [] expr = "is_public" -> row.is_public = TRUE
    [] expr = "uid_is_id" -> SqlEq(Uid(actor), row.id)
    [] expr = "creator" -> SqlEq(row.created_by, Uid(actor))
    [] OTHER -> FALSE

\* a subquery on user_profiles runs under that table's SELECT policies
ProfileVisible(actor, u) ==
  /\ u \in Users
  /\ profiles[u] # NoProfile
  /\ \E p \in policies :
       /\ p.tbl = "user_profiles"
       /\ p.cmd \in {"SELECT", "ALL"}
       /\ DbRole(actor) \in p.roles
       /\ EvalSimple(p.using, actor, ProfileRow(u))

\* EXISTS (SELECT 1 FROM user_profiles WHERE id = auth.uid()
\*         AND is_active = true AND role IN roleset)
ExistsOwnProfile(actor, roleset) ==
  /\ ProfileVisible(actor, Uid(actor))
  /\ profiles[Uid(actor)].is_active = TRUE
  /\ profiles[Uid(actor)].role \in roleset

\* the WITH CHECK of the self-update policy without its two subqueries
EqualsOwnStored_Unchecked(actor, row, col) == TRUE

\* col = (SELECT col FROM user_profiles WHERE id = auth.uid());
\* the subquery reads the stored row and yields NULL when none is visible
EqualsOwnStored(actor, row, col) ==
  /\ ProfileVisible(actor, Uid(actor))
  /\ row[col] = ProfileRow(Uid(actor))[col]

Eval(expr, actor, row) ==
  CASE expr = "own_unprivileged" ->
         /\ SqlEq(Uid(actor), row.id)
         /\ EqualsOwnStored(actor, row, "role")
         /\ EqualsOwnStored(actor, row, "is_active")
    [] expr = "creator_and_editor" ->
         /\ SqlEq(Uid(actor), row.created_by)
         /\ ExistsOwnProfile(actor, {"admin", "editor"})
    [] expr = "creator_or_editor" ->
         \/ SqlEq(row.created_by, Uid(actor))
         \/ ExistsOwnProfile(actor, {"admin", "editor"})
    [] expr = "creator_or_admin" ->
         \/ SqlEq(row.created_by, Uid(actor))
         \/ ExistsOwnProfile(actor, {"admin"})
    [] OTHER -> EvalSimple(expr, actor, row)

\* permissive policies of one command are OR-ed; no policy means deny
UsingOk(cmd, actor, tbl, row) ==
  \E p \in policies :
    /\ p.tbl = tbl
    /\ p.cmd \in {cmd, "ALL"}
    /\ DbRole(actor) \in p.roles
    /\ Eval(p.using, actor, row)

CheckOk(cmd, actor, tbl, row) ==
  \E p \in policies :
    /\ p.tbl = tbl
    /\ p.cmd \in {cmd, "ALL"}
    /\ DbRole(actor) \in p.roles
    /\ Eval(IF p.check = "none" THEN p.using ELSE p.check, actor, row)

CanSelect(actor, tbl, row) == UsingOk("SELECT", actor, tbl, row)

\* INSERT; with RETURNING (.select()) the new row must be readable too
CanInsert(actor, tbl, new, returning) ==
  /\ CheckOk("INSERT", actor, tbl, new)
  /\ returning => CanSelect(actor, tbl, new)

\* UPDATE ... WHERE id = ...: old row readable and updatable, new row checked
CanUpdate(actor, tbl, old, new) ==
  /\ CanSelect(actor, tbl, old)
  /\ UsingOk("UPDATE", actor, tbl, old)
  /\ CheckOk("UPDATE", actor, tbl, new)
  /\ CanSelect(actor, tbl, new)

\* DELETE ... WHERE id = ...
CanDelete(actor, tbl, old) ==
  /\ CanSelect(actor, tbl, old)
  /\ UsingOk("DELETE", actor, tbl, old)

(***************************************************************************)
(* Data domains                                                            *)
(***************************************************************************)
Profile == [role : Roles, is_active : BOOLEAN, full_name : Names]

\* a content row; is_active is a column of page_content_sections and
\* is_public one of content_templates (held at TRUE where the table lacks it);
\* updated_by is the nullable column the statement leaves unset
ContentRow ==
  [tbl : {"page_content_sections"}, created_by : Users \cup {NULL},
   updated_by : {NULL}, is_active : BOOLEAN, is_public : {TRUE}]
  \cup
  [tbl : {"page_seo_content"}, created_by : Users \cup {NULL},
   updated_by : {NULL}, is_active : {TRUE}, is_public : {TRUE}]
  \cup
  [tbl : {"content_templates"}, created_by : Users \cup {NULL},
   updated_by : {NULL}, is_active : {TRUE}, is_public : BOOLEAN]

\* content rows of statements that also give updated_by a value
AuditedRow ==
  {[row EXCEPT !.updated_by = u] : row \in ContentRow, u \in {NULL, "U1", "U2"}}

AllApplied == applied = Migrations

(***************************************************************************)
(* Migrations                                                              *)
(***************************************************************************)
MigrateCreateCms ==
  /\ "create_cms" \notin applied
  /\ applied' = applied \cup {"create_cms"}
  /\ policies' = ApplyMigration({}, CreateCmsPolicies, policies)
  /\ UNCHANGED <<profiles, rows, reqs, cookies>>

MigrateAddAuth ==
  /\ "create_cms" \in applied
  /\ "add_auth" \notin applied
  /\ applied' = applied \cup {"add_auth"}
  /\ policies' = ApplyMigration(AddAuthDrops, AddAuthPolicies, policies)
  /\ UNCHANGED <<profiles, rows, reqs, cookies>>

MigrateAnonAccess ==
  /\ "create_cms" \in applied
  /\ "anon_access" \notin applied
  /\ applied' = applied \cup {"anon_access"}
  /\ policies' = ApplyMigration(AnonAccessDrops, AnonAccessPolicies, policies)
  /\ UNCHANGED <<profiles, rows, reqs, cookies>>

(***************************************************************************)
(* user_profiles                                                           *)
(***************************************************************************)
\* trigger on_auth_user_created -> create_user_profile()
SignUp(u, name) ==
  /\ "add_auth" \in applied
  /\ profiles[u] = NoProfile
  /\ profiles' = [profiles EXCEPT ![u] =
                    [role |-> "viewer", is_active |-> TRUE, full_name |-> name]]
  /\ UNCHANGED <<applied, policies, rows, reqs, cookies>>

\* role management by SQL with a role that bypasses the row policies
SqlUpdateProfile(u, role, active) ==
  /\ "add_auth" \in applied
  /\ profiles[u] # NoProfile
  /\ profiles' = [profiles EXCEPT ![u].role = role, ![u].is_active = active]
  /\ UNCHANGED <<applied, policies, rows, reqs, cookies>>

\* UPDATE user_profiles SET ... WHERE id = u, sent by actor
UpdateProfile(actor, u, new) ==
  /\ "add_auth" \in applied
  /\ profiles[u] # NoProfile
  /\ CanUpdate(actor, "user_profiles", ProfileRow(u), new)
  /\ new.id = u
  /\ profiles' = [profiles EXCEPT ![u] =
                    [role |-> new.role, is_active |-> new.is_active,
                     full_name |-> new.full_name]]
  /\ UNCHANGED <<applied, policies, rows, reqs, cookies>>

\* INSERT INTO user_profiles (id, role, is_active, ...) sent by actor; the
\* primary key admits one row per identity
InsertProfile(actor, new) ==
  /\ "add_auth" \in applied
  /\ new.id \in Users
  /\ profiles[new.id] = NoProfile
  /\ CanInsert(actor, "user_profiles", new, FALSE)
  /\ profiles' = [profiles EXCEPT ![new.id] =
                    [role |-> new.role, is_active |-> new.is_active,
                     full_name |-> new.full_name]]
  /\ UNCHANGED <<applied, policies, rows, reqs, cookies>>

(***************************************************************************)
(* Content tables: statements sent straight to the database                *)
(***************************************************************************)
InsertRow(actor, id, new, returning) ==
  /\ "add_auth" \in applied
  /\ rows[id] = NoRow
  /\ CanInsert(actor, new.tbl, new, returning)
  /\ rows' = [rows EXCEPT ![id] = new]
  /\ UNCHANGED <<applied, policies, profiles, reqs, cookies>>

UpdateRow(actor, id, new) ==
  /\ "add_auth" \in applied
  /\ rows[id] # NoRow
  /\ new.tbl = rows[id].tbl
  /\ CanUpdate(actor, new.tbl, rows[id], new)
  /\ rows' = [rows EXCEPT ![id] = new]
  /\ UNCHANGED <<applied, policies, profiles, reqs, cookies>>

DeleteRow(actor, id) ==
  /\ "add_auth" \in applied
  /\ rows[id] # NoRow
  /\ CanDelete(actor, rows[id].tbl, rows[id])
  /\ rows' = [rows EXCEPT ![id] = NoRow]
  /\ UNCHANGED <<applied, policies, profiles, reqs, cookies>>

(***************************************************************************)
(* Content tables: the functions of lib/cms.ts.  Each sends one statement  *)
(* through the shared client; actor is the identity that client carries.   *)
(***************************************************************************)
\* the page a page_content_sections row belongs to (page_type, page_id)
Pages == {"home", "about"}
PageOf(id) == IF id % 2 = 1 THEN "home" ELSE "about"

\* the query without .eq('is_active', true)
getPageContentSections_NoActiveFilter(actor, page) ==
  {id \in RowIds :
     /\ rows[id].tbl = "page_content_sections"
     /\ PageOf(id) = page
     /\ CanSelect(actor, "page_content_sections", rows[id])}

\* select('*').eq('page_type', ..).eq('page_id', ..).eq('is_active', true):
\* the rows of the page that pass the filter and that the SELECT policies show
getPageContentSections(actor, page) ==
  {id \in RowIds :
     /\ rows[id].tbl = "page_content_sections"
     /\ PageOf(id) = page
     /\ rows[id].is_active = TRUE
     /\ CanSelect(actor, "page_content_sections", rows[id])}

createContentSection(actor, id, section) ==
  /\ section.tbl = "page_content_sections"
  /\ InsertRow(actor, id, section, TRUE)

updateContentSection(actor, id, updates) ==
  /\ updates.tbl = "page_content_sections"
  /\ UpdateRow(actor, id, updates)

deleteContentSection(actor, id) ==
  /\ rows[id] # NoRow
  /\ rows[id].tbl = "page_content_sections"
  /\ DeleteRow(actor, id)

\* INSERT ... ON CONFLICT (page_type, page_id) DO UPDATE
upsertPageSEOContent(actor, id, seoContent) ==
  /\ "add_auth" \in applied
  /\ seoContent.tbl = "page_seo_content"
  /\ CanInsert(actor, "page_seo_content", seoContent, TRUE)
  /\ \/ rows[id] = NoRow
     \/ /\ rows[id] # NoRow
        /\ rows[id].tbl = "page_seo_content"
        /\ CanUpdate(actor, "page_seo_content", rows[id], seoContent)
  /\ rows' = [rows EXCEPT ![id] = seoContent]
  /\ UNCHANGED <<applied, policies, profiles, reqs, cookies>>

(***************************************************************************)
(* The request middleware (onRequest)                                      *)
(***************************************************************************)
ReqIds == 1..MaxReqs

protectedRoutes == {"/cms-admin", "/admin"}
\* request paths used by the model and the protected prefix each starts with
Paths == {"/cms-admin", "/admin/users", "/administrator", "/blog/post", "/login"}
PrefixOf(path) ==
  CASE path = "/cms-admin" -> "/cms-admin"
    [] path = "/admin/users" -> "/admin"
    [] path = "/administrator" -> "/admin"
    [] OTHER -> "none"
NoCookie == "nocookie"
\* access tokens a request may carry and the identity each was issued to
Tokens == {"tok-U1", "tok-U2", "tok-bad"}
TokenOwner(t) ==
  CASE t = "tok-U1" -> "U1"
    [] t = "tok-U2" -> "U2"
    [] OTHER -> NULL
AccessValues == Tokens \cup {"", NoCookie}
RefreshValues == {"refresh", NoCookie}

SecurityHeaders ==
  {"X-Frame-Options", "X-Content-Type-Options", "X-XSS-Protection",
   "Referrer-Policy", "Permissions-Policy"}

NoLocalsProfile == [role |-> "none", is_active |-> FALSE]

\* a request as it arrives: nothing done yet.  sentAccess and sentRefresh are
\* the cookies the request came with, access and refresh the jar as the
\* middleware leaves it; prev tells what the browser's previous request ended in
\* and dbOp, dbActor, dbRow the statement its handler sent to the database
NewReq(path, access, refresh) ==
  [pc |-> "start", path |-> path, access |-> access, refresh |-> refresh,
   sentAccess |-> access, sentRefresh |-> refresh, prev |-> "none",
   user |-> NULL, profile |-> NoLocalsProfile,
   localsUser |-> NULL, localsProfile |-> NoLocalsProfile,
   handlerUser |-> NULL, handlerProfile |-> NoLocalsProfile,
   dbOp |-> "none", dbActor |-> NULL, dbRow |-> 0,
   redirect |-> "none", headers |-> {}, trace |-> <<>>]

\* the prefix test replaced by a constant: every route is guarded
isProtectedRoute_EveryRoute(path) == path = path

\* the prefix test written as an exact comparison
isProtectedRoute_ExactMatch(path) == path \in protectedRoutes

\* protectedRoutes.some(route => pathname.startsWith(route))
isProtectedRoute(path) == PrefixOf(path) \in protectedRoutes

\* the role test of line 37 with the literal misspelt: it never matches
IsViewer_CaseTypo(profile) == profile.role = "Viewer"

\* the role test of line 37 against the wrong role
IsViewer_WrongRole(profile) == profile.role = "admin"

\* profile.role === 'viewer'
IsViewer(profile) == profile.role = "viewer"

\* the test of line 33 with && for ||: a missing profile passes it
ProfileMissingOrInactive_NullSlip(found, profile) == found /\ ~profile.is_active

\* !profile || !profile.is_active
ProfileMissingOrInactive(found, profile) == ~found \/ ~profile.is_active

\* return context.redirect(target): the response carries no further header
Redirect(req, target) ==
  [req EXCEPT !.pc = "done", !.redirect = target, !.headers = {}]

\* next() called before context.locals is filled
CallNext_BeforeLocals(req) ==
  [req EXCEPT !.pc = "awaitNext", !.trace = Append(@, "next")]

\* await next(): the handler runs and sees context.locals
CallNext(req) ==
  [req EXCEPT !.pc = "awaitNext", !.trace = Append(@, "next"),
              !.handlerUser = req.localsUser,
              !.handlerProfile = req.localsProfile]

\* lines 5-19 without the missing-cookie exit of lines 14-16
Start_ValidatesFirst(r) ==
  /\ reqs[r].pc = "start"
  /\ reqs' = [reqs EXCEPT ![r] =
       IF ~isProtectedRoute(reqs[r].path) THEN CallNext(reqs[r])
       ELSE [reqs[r] EXCEPT !.pc = "awaitGetUser", !.trace = Append(@, "getUser")]]
  /\ UNCHANGED <<applied, policies, profiles, rows, cookies>>

\* the missing-cookie exit of lines 14-16 with the target of line 34
Start_WrongTarget(r) ==
  /\ reqs[r].pc = "start"
  /\ reqs' = [reqs EXCEPT ![r] =
       IF ~isProtectedRoute(reqs[r].path) THEN CallNext(reqs[r])
       ELSE IF reqs[r].access \in {NoCookie, ""}
         THEN Redirect(reqs[r], "/login?error=inactive")
       ELSE [reqs[r] EXCEPT !.pc = "awaitGetUser", !.trace = Append(@, "getUser")]]
  /\ UNCHANGED <<applied, policies, profiles, rows, cookies>>

\* lines 5-19: route test, cookie read, up to the call of auth.getUser
Start(r) ==
  /\ reqs[r].pc = "start"
  /\ reqs' = [reqs EXCEPT ![r] =
       IF ~isProtectedRoute(reqs[r].path) THEN CallNext(reqs[r])
       ELSE IF reqs[r].access \in {NoCookie, ""} THEN Redirect(reqs[r], "/login")
       ELSE [reqs[r] EXCEPT !.pc = "awaitGetUser", !.trace = Append(@, "getUser")]]
  /\ UNCHANGED <<applied, policies, profiles, rows, cookies>>

\* lines 19-31 with line 23 left out: only sb-access-token is deleted
GetUserReturns_KeepsRefresh(r, outcome) ==
  /\ reqs[r].pc = "awaitGetUser"
  /\ outcome \in {"user", "error", "throw"}
  /\ outcome = "user" => TokenOwner(reqs[r].access) # NULL
  /\ reqs' = [reqs EXCEPT ![r] =
       CASE outcome = "throw" ->
              Redirect([reqs[r] EXCEPT !.trace = Append(@, "getUser->throw")], "/login")
         [] outcome = "error" ->
              Redirect([reqs[r] EXCEPT !.access = NoCookie,
                          !.trace = @ \o <<"getUser->error", "deleteAccess">>],
                       "/login")
         [] outcome = "user" ->
              [reqs[r] EXCEPT !.pc = "awaitProfile",
                              !.user = TokenOwner(reqs[r].access),
                              !.trace = @ \o <<"getUser->user", "getProfile">>]]
  /\ UNCHANGED <<applied, policies, profiles, rows, cookies>>

\* lines 19-31: auth.getUser answers (a user, an error, or it throws)
GetUserReturns(r, outcome) ==
  /\ reqs[r].pc = "awaitGetUser"
  /\ outcome \in {"user", "error", "throw"}
  /\ outcome = "user" => TokenOwner(reqs[r].access) # NULL
  /\ reqs' = [reqs EXCEPT ![r] =
       CASE outcome = "throw" ->
              Redirect([reqs[r] EXCEPT !.trace = Append(@, "getUser->throw")], "/login")
         [] outcome = "error" ->
              Redirect([reqs[r] EXCEPT !.access = NoCookie, !.refresh = NoCookie,
                          !.trace = @ \o <<"getUser->error", "deleteAccess",
                                           "deleteRefresh">>],
                       "/login")
         [] outcome = "user" ->
              [reqs[r] EXCEPT !.pc = "awaitProfile",
                              !.user = TokenOwner(reqs[r].access),
                              !.trace = @ \o <<"getUser->user", "getProfile">>]]
  /\ UNCHANGED <<applied, policies, profiles, rows, cookies>>

\* the request once the user_profiles query has answered: profile holds the
\* row the query returned (data), nothing when it found none or failed
WithProfileAnswer(req, found, outcome) ==
  [req EXCEPT
     !.profile = IF found
                   THEN [role |-> profiles[req.user].role,
                         is_active |-> profiles[req.user].is_active]
                   ELSE NoLocalsProfile,
     !.trace = Append(@, IF outcome = "data" THEN "getProfile->data"
                         ELSE IF outcome = "error" THEN "getProfile->error"
                         ELSE "getProfile->throw")]

\* lines 27-47 with the user held in a variable of the module, which the
\* request that validated its token last has overwritten
ProfileReturns_SharedUser(r, actor, outcome) ==
  /\ reqs[r].pc = "awaitProfile"
  /\ outcome \in {"data", "error", "throw"}
  /\ LET holders == {x \in DOMAIN reqs : reqs[x].user # NULL}
         last == CHOOSE x \in holders : \A y \in holders : y <= x
         shared == [reqs[r] EXCEPT !.user = reqs[last].user]
         found == outcome = "data" /\ ProfileVisible(actor, shared.user)
         q == WithProfileAnswer(shared, found, outcome)
     IN reqs' = [reqs EXCEPT ![r] =
          IF outcome = "throw" THEN Redirect(q, "/login")
          ELSE IF ProfileMissingOrInactive(found, q.profile)
            THEN Redirect(q, "/login?error=inactive")
          ELSE IF IsViewer(q.profile)
            THEN Redirect(q, "/login?error=unauthorized")
          ELSE CallNext([q EXCEPT !.localsUser = q.user,
                                  !.localsProfile = q.profile])]
  /\ UNCHANGED <<applied, policies, profiles, rows, cookies>>

\* lines 27-47 with both cookies deleted on the two standing denials
ProfileReturns_ClearsOnDeny(r, actor, outcome) ==
  /\ reqs[r].pc = "awaitProfile"
  /\ outcome \in {"data", "error", "throw"}
  /\ LET found == outcome = "data" /\ ProfileVisible(actor, reqs[r].user)
         q == WithProfileAnswer(reqs[r], found, outcome)
         cleared == [q EXCEPT !.access = NoCookie, !.refresh = NoCookie]
     IN reqs' = [reqs EXCEPT ![r] =
          IF outcome = "throw" THEN Redirect(q, "/login")
          ELSE IF ProfileMissingOrInactive(found, q.profile)
            THEN Redirect(cleared, "/login?error=inactive")
          ELSE IF IsViewer(q.profile)
            THEN Redirect(cleared, "/login?error=unauthorized")
          ELSE CallNext([q EXCEPT !.localsUser = q.user,
                                  !.localsProfile = q.profile])]
  /\ UNCHANGED <<applied, policies, profiles, rows, cookies>>

\* lines 27-47: the user_profiles query answers; the shared client sends it
\* as actor, so the row comes back only if the SELECT policies show it
ProfileReturns(r, actor, outcome) ==
  /\ reqs[r].pc = "awaitProfile"
  /\ outcome \in {"data", "error", "throw"}
  /\ LET found == outcome = "data" /\ ProfileVisible(actor, reqs[r].user)
         q == WithProfileAnswer(reqs[r], found, outcome)
     IN reqs' = [reqs EXCEPT ![r] =
          IF outcome = "throw" THEN Redirect(q, "/login")
          ELSE IF ProfileMissingOrInactive(found, q.profile)
            THEN Redirect(q, "/login?error=inactive")
          ELSE IF IsViewer(q.profile)
            THEN Redirect(q, "/login?error=unauthorized")
          ELSE CallNext([q EXCEPT !.localsUser = q.user,
                                  !.localsProfile = q.profile])]
  /\ UNCHANGED <<applied, policies, profiles, rows, cookies>>

\* lines 50-58: next() has answered; the five headers are set on its response
NextReturns(r) ==
  /\ reqs[r].pc = "awaitNext"
  /\ reqs' = [reqs EXCEPT ![r] =
       [reqs[r] EXCEPT !.pc = "done", !.headers = SecurityHeaders]]
  /\ UNCHANGED <<applied, policies, profiles, rows, cookies>>

\* the browser sends its next request with the cookies the response left
NewRequest(r, path) ==
  /\ reqs[r].pc = "done"
  /\ reqs' = [reqs EXCEPT ![r] = NewReq(path, reqs[r].access, reqs[r].refresh)]
  /\ UNCHANGED <<applied, policies, profiles, rows, cookies>>

StandingDenials == {"/login?error=inactive", "/login?error=unauthorized"}

\* after a denial for lack of standing the browser asks for the same path
\* again, with the cookies the response left
RetryAfterDenial(r) ==
  /\ reqs[r].pc = "done"
  /\ reqs[r].redirect \in StandingDenials
  /\ reqs' = [reqs EXCEPT ![r] =
       [NewReq(reqs[r].path, reqs[r].access, reqs[r].refresh)
          EXCEPT !.prev = "denied"]]
  /\ UNCHANGED <<applied, policies, profiles, rows, cookies>>

\* after the Credential Store rejected the token the same request is made
\* again: with the cookie jar as the response left it, or with the cookies
\* the first request was sent with
RetryAfterRejection(r, jar) ==
  /\ reqs[r].pc = "done"
  /\ \E i \in DOMAIN reqs[r].trace : reqs[r].trace[i] = "getUser->error"
  /\ jar \in {"left", "original"}
  /\ reqs' = [reqs EXCEPT ![r] =
       [(IF jar = "left"
           THEN NewReq(reqs[r].path, reqs[r].access, reqs[r].refresh)
           ELSE NewReq(reqs[r].path, reqs[r].sentAccess, reqs[r].sentRefresh))
          EXCEPT !.prev = "rejected"]]
  /\ UNCHANGED <<applied, policies, profiles, rows, cookies>>

(***************************************************************************)
(* A handler behind the middleware that calls lib/cms.ts.  The functions   *)
(* send their statement through the client shared by the whole server,     *)
(* created with the anon key: it goes out as actor, the anon role or the   *)
(* identity of a session a signIn left on that client.                     *)
(***************************************************************************)
\* the handler of an admitted request, before it has sent a statement
InHandler(r) ==
  /\ reqs[r].pc = "awaitNext"
  /\ reqs[r].localsUser # NULL
  /\ reqs[r].dbOp = "none"

\* the statement the handler of request r sent: its kind, actor and row
Sent(r, op, actor, id) ==
  [reqs EXCEPT ![r].dbOp = op, ![r].dbActor = actor, ![r].dbRow = id]

\* createContentSection(section) called by the handler of request r
HandlerCreatesSection(r, actor, id, section) ==
  /\ InHandler(r)
  /\ section.tbl = "page_content_sections"
  /\ rows[id] = NoRow
  /\ CanInsert(actor, "page_content_sections", section, TRUE)
  /\ rows' = [rows EXCEPT ![id] = section]
  /\ reqs' = Sent(r, "insert", actor, id)
  /\ UNCHANGED <<applied, policies, profiles, cookies>>

\* updateContentSection(id, updates) called by the handler of request r
HandlerUpdatesSection(r, actor, id, updates) ==
  /\ InHandler(r)
  /\ updates.tbl = "page_content_sections"
  /\ rows[id] # NoRow
  /\ rows[id].tbl = "page_content_sections"
  /\ CanUpdate(actor, "page_content_sections", rows[id], updates)
  /\ rows' = [rows EXCEPT ![id] = updates]
  /\ reqs' = Sent(r, "update", actor, id)
  /\ UNCHANGED <<applied, policies, profiles, cookies>>

\* deleteContentSection(id) called by the handler of request r
HandlerDeletesSection(r, actor, id) ==
  /\ InHandler(r)
  /\ rows[id] # NoRow
  /\ rows[id].tbl = "page_content_sections"
  /\ CanDelete(actor, "page_content_sections", rows[id])
  /\ rows' = [rows EXCEPT ![id] = NoRow]
  /\ reqs' = Sent(r, "delete", actor, id)
  /\ UNCHANGED <<applied, policies, profiles, cookies>>

\* upsertPageSEOContent(seoContent) called by the handler of request r
HandlerUpsertsSEO(r, actor, id, seoContent) ==
  /\ InHandler(r)
  /\ seoContent.tbl = "page_seo_content"
  /\ CanInsert(actor, "page_seo_content", seoContent, TRUE)
  /\ \/ rows[id] = NoRow
     \/ /\ rows[id] # NoRow
        /\ rows[id].tbl = "page_seo_content"
        /\ CanUpdate(actor, "page_seo_content", rows[id], seoContent)
  /\ rows' = [rows EXCEPT ![id] = seoContent]
  /\ reqs' = Sent(r, IF rows[id] = NoRow THEN "insert" ELSE "update", actor, id)
  /\ UNCHANGED <<applied, policies, profiles, cookies>>

(***************************************************************************)
(* Session cookies (lib/auth.ts) and the cookie cookies of the browser         *)
(***************************************************************************)
\* const maxAge = 60 * 60 * 24 * 7
maxAge == 60 * 60 * 24 * 7

\* a cookie the jar does not hold
NoJarCookie ==
  [value |-> NoCookie, path |-> "none", maxAge |-> 0, httpOnly |-> FALSE,
   sameSite |-> "none"]
EmptyJar == [access |-> NoJarCookie, refresh |-> NoJarCookie]

\* cookies.set(name, value, { path: '/', maxAge, httpOnly: true, sameSite: 'lax' })
SessionCookie(value) ==
  [value |-> value, path |-> "/", maxAge |-> maxAge, httpOnly |-> TRUE,
   sameSite |-> "lax"]

\* cookies.delete(name, { path }): removes the cookie stored under that path
DeleteCookie(cookie, path) == IF cookie.path = path THEN NoJarCookie ELSE cookie

\* setAuthCookies(cookies, accessToken, refreshToken): both cookies are set on
\* the same response
setAuthCookies(accessToken, refreshToken) ==
  /\ cookies' = [access |-> SessionCookie(accessToken),
             refresh |-> SessionCookie(refreshToken)]
  /\ UNCHANGED <<applied, policies, profiles, rows, reqs>>

\* clearAuthCookies with its second delete left out
clearAuthCookies_AccessOnly ==
  /\ cookies' = [cookies EXCEPT !.access = DeleteCookie(cookies.access, "/")]
  /\ UNCHANGED <<applied, policies, profiles, rows, reqs>>

\* clearAuthCookies(cookies)
clearAuthCookies ==
  /\ cookies' = [access |-> DeleteCookie(cookies.access, "/"),
             refresh |-> DeleteCookie(cookies.refresh, "/")]
  /\ UNCHANGED <<applied, policies, profiles, rows, reqs>>

\* a request slot with no request in flight
NoRequest == [NewReq("/login", NoCookie, NoCookie) EXCEPT !.pc = "closed"]

\* the browser sends a request with the session cookies its jar holds
SendFromJar(r, path) ==
  /\ reqs[r].pc = "closed"
  /\ reqs' = [reqs EXCEPT ![r] = NewReq(path, cookies.access.value, cookies.refresh.value)]
  /\ UNCHANGED <<applied, policies, profiles, rows, cookies>>

\* the response reaches the browser: the deletions the middleware made with
\* context.cookies.delete(name, { path: '/' }) are applied to the jar
ReceiveResponse(r) ==
  /\ reqs[r].pc = "done"
  /\ cookies' = [access |-> IF \E i \in DOMAIN reqs[r].trace : reqs[r].trace[i] = "deleteAccess"
                          THEN DeleteCookie(cookies.access, "/") ELSE cookies.access,
             refresh |-> IF \E i \in DOMAIN reqs[r].trace : reqs[r].trace[i] = "deleteRefresh"
                           THEN DeleteCookie(cookies.refresh, "/") ELSE cookies.refresh]
  /\ reqs' = [reqs EXCEPT ![r].pc = "closed"]
  /\ UNCHANGED <<applied, policies, profiles, rows>>

(***************************************************************************)
(* Specifications                                                          *)
(***************************************************************************)
IdleReqs == [r \in ReqIds |-> NewReq("/login", NoCookie, NoCookie)]

\* the database with the blog migrations applied, before the first CMS one
Init ==
  /\ applied = {}
  /\ policies = BlogPolicies
  /\ profiles = [u \in Users |-> NoProfile]
  /\ rows = [i \in RowIds |-> NoRow]
  /\ reqs = IdleReqs
  /\ cookies = EmptyJar

ProfileUpdates ==
  [id : Users, role : Roles, is_active : BOOLEAN, full_name : Names]

Next ==
  \/ MigrateCreateCms
  \/ MigrateAddAuth
  \/ MigrateAnonAccess
  \/ \E u \in Users : SignUp(u, "a")
  \/ \E u \in Users, role \in Roles, active \in BOOLEAN :
       SqlUpdateProfile(u, role, active)
  \/ \E actor \in Actors, id \in RowIds, new \in ContentRow, ret \in BOOLEAN :
       InsertRow(actor, id, new, ret)
  \/ \E actor \in Actors, id \in RowIds, new \in ContentRow :
       UpdateRow(actor, id, new)
  \/ \E actor \in Actors, id \in RowIds : DeleteRow(actor, id)
  \/ \E actor \in Actors, id \in RowIds, section \in ContentRow :
       createContentSection(actor, id, section)
  \/ \E actor \in Actors, id \in RowIds, updates \in ContentRow :
       updateContentSection(actor, id, updates)
  \/ \E actor \in Actors, id \in RowIds : deleteContentSection(actor, id)
  \/ \E actor \in Actors, id \in RowIds, seoContent \in ContentRow :
       upsertPageSEOContent(actor, id, seoContent)

Spec == Init /\ [][Next]_vars

\* the functions of lib/cms.ts, called with the anon key or with U1's session
CmsNext ==
  \/ MigrateCreateCms
  \/ MigrateAddAuth
  \/ MigrateAnonAccess
  \/ SignUp("U1", "a")
  \/ \E role \in Roles, active \in BOOLEAN : SqlUpdateProfile("U1", role, active)
  \/ \E actor \in {ANON, "U1"}, id \in RowIds, section \in ContentRow :
       createContentSection(actor, id, section)
  \/ \E actor \in {ANON, "U1"}, id \in RowIds, updates \in ContentRow :
       updateContentSection(actor, id, updates)
  \/ \E actor \in {ANON, "U1"}, id \in RowIds : deleteContentSection(actor, id)
  \/ \E actor \in {ANON, "U1"}, id \in RowIds, seoContent \in ContentRow :
       upsertPageSEOContent(actor, id, seoContent)

CmsSpec == Init /\ [][CmsNext]_vars

\* user_profiles alone: sign-up, role management and self-service updates
ProfileNext ==
  \/ MigrateCreateCms
  \/ MigrateAddAuth
  \/ MigrateAnonAccess
  \/ \E u \in Users : SignUp(u, "a")
  \/ \E u \in Users, role \in Roles, active \in BOOLEAN :
       SqlUpdateProfile(u, role, active)
  \/ \E actor \in Actors, u \in Users, new \in ProfileUpdates :
       UpdateProfile(actor, u, new)
  \/ \E actor \in Actors, new \in {n \in ProfileUpdates : n.full_name = "a"} :
       InsertProfile(actor, new)

ProfileSpec == Init /\ [][ProfileNext]_vars

\* the middleware in front of the deployed database
GateInit ==
  /\ applied = Migrations
  /\ policies = DeployedPolicies
  /\ \E p \in [role : Roles, is_active : BOOLEAN, full_name : {"a"}] \cup {NoProfile} :
       profiles = [u \in Users |-> IF u = "U1" THEN p ELSE NoProfile]
  /\ rows = [i \in RowIds |-> NoRow]
  /\ reqs \in [ReqIds -> {NewReq(path, a, f) :
                 path \in Paths, a \in AccessValues, f \in RefreshValues}]
  /\ cookies = EmptyJar

GateNext ==
  \/ \E r \in ReqIds : Start(r)
  \/ \E r \in ReqIds, outcome \in {"user", "error", "throw"} : GetUserReturns(r, outcome)
  \/ \E r \in ReqIds, actor \in Actors, outcome \in {"data", "error", "throw"} :
       ProfileReturns(r, actor, outcome)
  \/ \E r \in ReqIds : NextReturns(r)
  \/ \E r \in ReqIds, path \in Paths : NewRequest(r, path)

GateSpec == GateInit /\ [][GateNext]_vars

\* a browser that holds session cookies and asks for a protected page
GateRetryInit ==
  /\ applied = Migrations
  /\ policies = DeployedPolicies
  /\ \E p \in [role : Roles, is_active : BOOLEAN, full_name : {"a"}] \cup {NoProfile} :
       profiles = [u \in Users |-> IF u = "U1" THEN p ELSE NoProfile]
  /\ rows = [i \in RowIds |-> NoRow]
  /\ reqs \in [ReqIds -> {NewReq(path, a, f) :
                 path \in {"/cms-admin", "/admin/users"},
                 a \in {"tok-U1", "tok-bad"}, f \in RefreshValues}]
  /\ cookies = EmptyJar

\* the middleware with repeated requests of one browser, while profiles are
\* managed by SQL in between
GateRetryNext ==
  \/ \E r \in ReqIds : Start(r)
  \/ \E r \in ReqIds, outcome \in {"user", "error", "throw"} : GetUserReturns(r, outcome)
  \/ \E r \in ReqIds, actor \in Actors, outcome \in {"data", "error", "throw"} :
       ProfileReturns(r, actor, outcome)
  \/ \E r \in ReqIds : NextReturns(r)
  \/ \E r \in ReqIds : RetryAfterDenial(r)
  \/ \E r \in ReqIds, jar \in {"left", "original"} : RetryAfterRejection(r, jar)
  \/ \E u \in Users, role \in Roles, active \in BOOLEAN :
       SqlUpdateProfile(u, role, active)

GateRetrySpec == GateRetryInit /\ [][GateRetryNext]_vars

\* requests to /cms-admin whose handlers change content through lib/cms.ts
HandlerInit ==
  /\ applied = Migrations
  /\ policies = DeployedPolicies
  /\ \E p \in [role : Roles, is_active : BOOLEAN, full_name : {"a"}] \cup {NoProfile} :
       profiles = [u \in Users |-> IF u = "U1" THEN p ELSE NoProfile]
  /\ rows = [i \in RowIds |-> NoRow]
  /\ reqs = [r \in ReqIds |-> NewReq("/cms-admin", "tok-U1", "refresh")]
  /\ cookies = EmptyJar

HandlerNext ==
  \/ \E r \in ReqIds : Start(r)
  \/ \E r \in ReqIds, outcome \in {"user", "error", "throw"} : GetUserReturns(r, outcome)
  \/ \E r \in ReqIds, actor \in Actors, outcome \in {"data", "error", "throw"} :
       ProfileReturns(r, actor, outcome)
  \/ \E r \in ReqIds, actor \in Actors, id \in RowIds, section \in AuditedRow :
       HandlerCreatesSection(r, actor, id, section)
  \/ \E r \in ReqIds, actor \in Actors, id \in RowIds, updates \in AuditedRow :
       HandlerUpdatesSection(r, actor, id, updates)
  \/ \E r \in ReqIds, actor \in Actors, id \in RowIds :
       HandlerDeletesSection(r, actor, id)
  \/ \E r \in ReqIds, actor \in Actors, id \in RowIds, seoContent \in AuditedRow :
       HandlerUpsertsSEO(r, actor, id, seoContent)
  \/ \E r \in ReqIds : NextReturns(r)
  \/ \E r \in ReqIds : NewRequest(r, "/cms-admin")

HandlerSpec == HandlerInit /\ [][HandlerNext]_vars

\* several requests in flight at once, from the sessions of two identities
ConcReqIds == 1..(MaxReqs + 1)
ConcInit ==
  /\ applied = Migrations
  /\ policies = DeployedPolicies
  /\ \E p1, p2 \in [role : Roles, is_active : {TRUE}, full_name : {"a"}] :
       profiles = [u \in Users |-> IF u = "U1" THEN p1
                                   ELSE IF u = "U2" THEN p2 ELSE NoProfile]
  /\ rows = [i \in RowIds |-> NoRow]
  /\ reqs \in [ConcReqIds -> {NewReq("/cms-admin", a, "refresh") :
                               a \in {"tok-U1", "tok-U2"}}]
  /\ cookies = EmptyJar

ConcNext ==
  \/ \E r \in ConcReqIds : Start(r)
  \/ \E r \in ConcReqIds, outcome \in {"user", "error", "throw"} :
       GetUserReturns(r, outcome)
  \/ \E r \in ConcReqIds, actor \in Actors, outcome \in {"data", "error", "throw"} :
       ProfileReturns(r, actor, outcome)
  \/ \E r \in ConcReqIds : NextReturns(r)

ConcSpec == ConcInit /\ [][ConcNext]_vars

\* one browser: sign-in and sign-out set and clear the session cookies, and
\* the requests it sends go through the middleware
JarInit ==
  /\ applied = Migrations
  /\ policies = DeployedPolicies
  /\ \E p \in [role : Roles, is_active : BOOLEAN, full_name : {"a"}] \cup {NoProfile} :
       profiles = [u \in Users |-> IF u = "U1" THEN p ELSE NoProfile]
  /\ rows = [i \in RowIds |-> NoRow]
  /\ reqs = [r \in ReqIds |-> NoRequest]
  /\ cookies = EmptyJar

JarNext ==
  \/ \E a \in {"tok-U1", "tok-bad"} : setAuthCookies(a, "refresh")
  \/ clearAuthCookies
  \/ \E r \in ReqIds, path \in {"/cms-admin", "/blog/post"} : SendFromJar(r, path)
  \/ \E r \in ReqIds : Start(r)
  \/ \E r \in ReqIds, outcome \in {"user", "error", "throw"} : GetUserReturns(r, outcome)
  \/ \E r \in ReqIds, actor \in Actors, outcome \in {"data", "error", "throw"} :
       ProfileReturns(r, actor, outcome)
  \/ \E r \in ReqIds : NextReturns(r)
  \/ \E r \in ReqIds : ReceiveResponse(r)

JarSpec == JarInit /\ [][JarNext]_vars

(***************************************************************************)
(* Properties of the middleware                                            *)
(***************************************************************************)
InTrace(req, ev) == \E i \in DOMAIN req.trace : req.trace[i] = ev
HandlerRan(req) == InTrace(req, "next")
StartsWithProtectedPrefix(path) == PrefixOf(path) \in {"/cms-admin", "/admin"}
LoginRedirects == {"/login", "/login?error=inactive", "/login?error=unauthorized"}

\* C1: on a path that starts with /cms-admin or /admin the handler (next) runs
\* only if an access-token cookie was present, auth.getUser resolved it to an
\* identity, the profile of that identity was loaded with is_active true and
\* its role is editor or admin; otherwise the request ends in a redirect and
\* the handler never runs.
C1_HandlerOnlyForActiveEditorOrAdmin ==
  \A r \in ReqIds :
    LET q == reqs[r] IN
    StartsWithProtectedPrefix(q.path) =>
      /\ HandlerRan(q) =>
           /\ q.access \in Tokens
           /\ InTrace(q, "getUser")
           /\ q.user \in Users
           /\ q.user = TokenOwner(q.access)
           /\ InTrace(q, "getProfile")
           /\ profiles[q.user] # NoProfile
           /\ profiles[q.user].is_active = TRUE
           /\ profiles[q.user].role \in {"editor", "admin"}
           /\ q.handlerUser = q.user
           /\ q.handlerProfile.is_active = TRUE
           /\ q.handlerProfile.role = profiles[q.user].role
           /\ q.redirect = "none"
      /\ (q.pc = "done" /\ ~HandlerRan(q)) => q.redirect \in LoginRedirects
      /\ q.redirect # "none" => ~HandlerRan(q)

\* a request to a protected path was let through to the handler and answered
C1_Witness ==
  \E r \in ReqIds :
    /\ StartsWithProtectedPrefix(reqs[r].path)
    /\ reqs[r].pc = "done"
    /\ HandlerRan(reqs[r])
    /\ reqs[r].handlerProfile.role = "editor"

\* C2: every response the middleware returns (pass-through, allow and each of
\* the three redirects) carries the five security headers.
C2_EveryResponseHasSecurityHeaders ==
  \A r \in ReqIds :
    reqs[r].pc = "done" => SecurityHeaders \subseteq reqs[r].headers

(***************************************************************************)
(* Properties of the row policies                                          *)
(***************************************************************************)
ExistingRows == {rows[i] : i \in {j \in RowIds : rows[j] # NoRow}}
HasProfile(u) == profiles[u] # NoProfile
SameTable(tbl) == {x \in ContentRow : x.tbl = tbl}

\* C3: with every migration applied, the anon role is permitted no INSERT,
\* UPDATE or DELETE on page_content_sections, page_seo_content or
\* content_templates, whichever of the two later migrations ran first.
C3_AnonCannotWriteContent ==
  AllApplied =>
    \A row \in ContentRow :
      /\ ~CanInsert(ANON, row.tbl, row, FALSE)
      /\ ~CanDelete(ANON, row.tbl, row)
      /\ \A new \in SameTable(row.tbl) : ~CanUpdate(ANON, row.tbl, row, new)

\* C4: an actor whose profile has is_active = false is denied read, create,
\* update and delete on every content resource, whatever the role and also
\* for resources the actor created.
C4_InactiveActorDeniedEverything ==
  AllApplied =>
    \A u \in Users :
      (HasProfile(u) /\ profiles[u].is_active = FALSE) =>
        /\ \A new \in ContentRow : ~CanInsert(u, new.tbl, new, FALSE)
        /\ \A row \in ExistingRows :
             /\ ~CanSelect(u, row.tbl, row)
             /\ ~CanDelete(u, row.tbl, row)
             /\ \A new \in SameTable(row.tbl) : ~CanUpdate(u, row.tbl, row, new)

\* C5: an insert into a content table succeeds only if the actor has a profile
\* with is_active true and role editor or admin and the new row's created_by is
\* the actor's id; viewers, identities without profile and anon are denied.
C5_CreateOnlyByActiveEditorOrAdmin ==
  AllApplied =>
    \A actor \in Actors, new \in ContentRow, ret \in BOOLEAN :
      CanInsert(actor, new.tbl, new, ret) =>
        /\ actor \in Users
        /\ HasProfile(actor)
        /\ profiles[actor].is_active = TRUE
        /\ profiles[actor].role \in {"editor", "admin"}
        /\ new.created_by = actor

\* C6: for every content table and every active actor an update is permitted
\* exactly when the actor's role is editor or admin or the actor created the
\* row; a non-creator editor may update any resource, templates included.
C6_UpdateIffEditorAdminOrCreator ==
  AllApplied =>
    \A u \in Users, row \in ExistingRows :
      (HasProfile(u) /\ profiles[u].is_active = TRUE) =>
        (CanUpdate(u, row.tbl, row, row)
           <=> (profiles[u].role \in {"editor", "admin"} \/ row.created_by = u))

\* C7: for every content resource and every active actor a delete is permitted
\* exactly when the actor's role is admin or the actor created the row.
C7_DeleteIffAdminOrCreator ==
  AllApplied =>
    \A u \in Users, row \in ExistingRows :
      (HasProfile(u) /\ profiles[u].is_active = TRUE) =>
        (CanDelete(u, row.tbl, row)
           <=> (profiles[u].role = "admin" \/ row.created_by = u))

\* C8 (scenario E): for a resource created by editor U2, a delete by U2 is
\* allowed, a delete by another editor U3 is allowed, and a delete by viewer
\* U4 is denied.
C8_ScenarioE ==
  AllApplied =>
    \A u2 \in Users, u3 \in Users, u4 \in Users, row \in ExistingRows :
      ( /\ u2 # u3 /\ u2 # u4 /\ u3 # u4
        /\ row.created_by = u2
        /\ profiles[u2] = [role |-> "editor", is_active |-> TRUE, full_name |-> "a"]
        /\ profiles[u3] = [role |-> "editor", is_active |-> TRUE, full_name |-> "a"]
        /\ profiles[u4] = [role |-> "viewer", is_active |-> TRUE, full_name |-> "a"] )
      => /\ CanDelete(u2, row.tbl, row)
         /\ CanDelete(u3, row.tbl, row)
         /\ ~CanDelete(u4, row.tbl, row)

\* C9: whatever permitted updates are made, through updateContentSection,
\* upsertPageSEOContent or straight against the policies, a content row keeps
\* the created_by it was given at creation.
C9_CreatedByImmutable ==
  [][\A i \in RowIds :
       (rows[i] # NoRow /\ rows'[i] # NoRow) =>
          rows'[i].created_by = rows[i].created_by]_vars

(***************************************************************************)
(* Properties of user_profiles                                             *)
(***************************************************************************)
SelfUpdates(u) == {n \in ProfileUpdates : n.id = u}
Privileged(u, n) ==
  n.role # profiles[u].role \/ n.is_active # profiles[u].is_active

\* C10 as stated: a self-update by a non-admin is rejected whenever role or
\* is_active differs from the stored value and succeeds when only other fields
\* change; nobody can update a profile that is not their own.
C10_Original ==
  "add_auth" \in applied =>
    \A u \in Users :
      HasProfile(u) =>
        /\ profiles[u].role # "admin" =>
             \A n \in SelfUpdates(u) :
               CanUpdate(u, "user_profiles", ProfileRow(u), n) <=> ~Privileged(u, n)
        /\ \A actor \in Actors \ {u}, n \in ProfileUpdates :
             ~CanUpdate(actor, "user_profiles", ProfileRow(u), n)

\* C10 (amended): a self-update by a non-admin is rejected whenever role or
\* is_active differs from the stored value; it succeeds when only other fields
\* change and the stored profile is active, and is rejected for an inactive
\* profile; nobody can update a profile that is not their own.
C10_SelfUpdateKeepsRoleAndActive ==
  "add_auth" \in applied =>
    \A u \in Users :
      HasProfile(u) =>
        /\ profiles[u].role # "admin" =>
             \A n \in SelfUpdates(u) :
               CanUpdate(u, "user_profiles", ProfileRow(u), n)
                 <=> (~Privileged(u, n) /\ profiles[u].is_active = TRUE)
        /\ \A actor \in Actors \ {u}, n \in ProfileUpdates :
             ~CanUpdate(actor, "user_profiles", ProfileRow(u), n)

\* a non-admin has changed the full_name of their own profile
C10_Witness ==
  \E u \in Users :
    /\ HasProfile(u)
    /\ profiles[u].role = "viewer"
    /\ profiles[u].is_active = TRUE
    /\ profiles[u].full_name = "b"

\* C11: every profile row that comes into existence, by the sign-up trigger or
\* by an actor's own INSERT under "Users can insert their own profile", has
\* role viewer and is_active true.
C11_NewProfilesAreActiveViewers ==
  [][\A u \in Users :
       (profiles[u] = NoProfile /\ profiles'[u] # NoProfile) =>
          (profiles'[u].role = "viewer" /\ profiles'[u].is_active = TRUE)]_vars

(***************************************************************************)
(* Outcomes of the session gate, branch by branch                          *)
(***************************************************************************)
Finished(req) == req.pc = "done" /\ StartsWithProtectedPrefix(req.path)
CookiesUntouched(req) ==
  /\ req.access = req.sentAccess
  /\ req.refresh = req.sentRefresh
  /\ ~InTrace(req, "deleteAccess")
  /\ ~InTrace(req, "deleteRefresh")
NextCalls(req) == Cardinality({i \in DOMAIN req.trace : req.trace[i] = "next"})
\* the profile row of the identity the request's token belongs to
OwnerProfile(req) == profiles[TokenOwner(req.sentAccess)]

\* C12: a request to a protected path that came without an sb-access-token
\* cookie ends in a redirect to plain /login; nothing was asked of the
\* Credential Store or of user_profiles, no cookie was deleted and the handler
\* did not run.
C12_NoTokenRedirectsToLogin ==
  \A r \in ReqIds :
    LET q == reqs[r] IN
    (StartsWithProtectedPrefix(q.path) /\ q.sentAccess = NoCookie /\ q.pc # "start") =>
      /\ q.pc = "done"
      /\ q.redirect = "/login"
      /\ q.trace = <<>>
      /\ CookiesUntouched(q)

C12_Witness ==
  \E r \in ReqIds :
    /\ reqs[r].path = "/admin/users"
    /\ reqs[r].sentAccess = NoCookie
    /\ reqs[r].sentRefresh = "refresh"
    /\ reqs[r].pc = "done"
    /\ reqs[r].redirect = "/login"

\* C13: when auth.getUser reports the token as invalid or expired, the request
\* ends in a redirect to /login with both sb-access-token and sb-refresh-token
\* deleted, no user_profiles lookup made and the handler not run.
C13_RejectedTokenClearsCookies ==
  \A r \in ReqIds :
    LET q == reqs[r] IN
    (StartsWithProtectedPrefix(q.path) /\ InTrace(q, "getUser->error")) =>
      /\ q.pc = "done"
      /\ q.redirect = "/login"
      /\ q.access = NoCookie /\ q.refresh = NoCookie
      /\ InTrace(q, "deleteAccess") /\ InTrace(q, "deleteRefresh")
      /\ ~InTrace(q, "getProfile")
      /\ ~HandlerRan(q)

C13_Witness ==
  \E r \in ReqIds :
    /\ Finished(reqs[r])
    /\ reqs[r].sentAccess \in Tokens
    /\ reqs[r].sentRefresh = "refresh"
    /\ InTrace(reqs[r], "getUser->error")
    /\ reqs[r].refresh = NoCookie

\* C14: with a valid token and a user_profiles lookup that answered, an
\* identity without a profile row or with is_active false, whatever its role,
\* is redirected to /login?error=inactive; the cookies stay as they were and
\* the handler does not run.
C14_MissingOrInactiveProfileDenied ==
  \A r \in ReqIds :
    LET q == reqs[r] IN
    (/\ Finished(q)
     /\ InTrace(q, "getUser->user")
     /\ ~InTrace(q, "getProfile->throw")
     /\ (OwnerProfile(q) = NoProfile \/ ~OwnerProfile(q).is_active)) =>
      /\ q.redirect = "/login?error=inactive"
      /\ CookiesUntouched(q)
      /\ ~HandlerRan(q)

C14_Witness ==
  \E r \in ReqIds :
    /\ Finished(reqs[r])
    /\ InTrace(reqs[r], "getProfile->data")
    /\ \/ OwnerProfile(reqs[r]) = NoProfile
       \/ (OwnerProfile(reqs[r]).role = "admin" /\ ~OwnerProfile(reqs[r]).is_active)
    /\ reqs[r].redirect = "/login?error=inactive"

\* C15: with a valid token and a profile that is active with role viewer, the
\* request is redirected to /login?error=unauthorized; the cookies stay as they
\* were and the handler does not run.
C15_ActiveViewerUnauthorized ==
  \A r \in ReqIds :
    LET q == reqs[r] IN
    (/\ Finished(q)
     /\ InTrace(q, "getUser->user")
     /\ InTrace(q, "getProfile->data")
     /\ OwnerProfile(q).is_active
     /\ OwnerProfile(q).role = "viewer") =>
      /\ q.redirect = "/login?error=unauthorized"
      /\ CookiesUntouched(q)
      /\ ~HandlerRan(q)

C15_Witness ==
  \E r \in ReqIds :
    /\ Finished(reqs[r])
    /\ InTrace(reqs[r], "getProfile->data")
    /\ OwnerProfile(reqs[r]).is_active
    /\ OwnerProfile(reqs[r]).role = "viewer"
    /\ reqs[r].redirect = "/login?error=unauthorized"

\* C16: with a valid token of identity U and a profile of U that is active with
\* role editor or admin, the handler is called exactly once and sees identity U
\* with the profile loaded for U; there is no redirect and no cookie changes.
C16_AdmittedHandlerSeesOwnIdentity ==
  \A r \in ReqIds :
    LET q == reqs[r] IN
    (/\ StartsWithProtectedPrefix(q.path)
     /\ q.pc \in {"awaitNext", "done"}
     /\ InTrace(q, "getUser->user")
     /\ InTrace(q, "getProfile->data")
     /\ OwnerProfile(q).is_active
     /\ OwnerProfile(q).role \in {"editor", "admin"}) =>
      /\ NextCalls(q) = 1
      /\ q.handlerUser = TokenOwner(q.sentAccess)
      /\ q.handlerProfile = [role |-> OwnerProfile(q).role,
                             is_active |-> OwnerProfile(q).is_active]
      /\ q.redirect = "none"
      /\ CookiesUntouched(q)

C16_Witness ==
  \E r \in ReqIds :
    /\ Finished(reqs[r])
    /\ NextCalls(reqs[r]) = 1
    /\ reqs[r].handlerUser = "U1"
    /\ reqs[r].handlerProfile = [role |-> "admin", is_active |-> TRUE]
    /\ reqs[r].sentRefresh = "refresh"
    /\ reqs[r].refresh = "refresh"

\* C17: when auth.getUser throws, the outcome is that of a rejected token: the
\* handler does not run, the redirect goes to /login and both session cookies
\* are cleared.
C17_GetUserThrowLikeRejectedToken ==
  \A r \in ReqIds :
    LET q == reqs[r] IN
    (Finished(q) /\ InTrace(q, "getUser->throw")) =>
      /\ q.redirect = "/login"
      /\ ~HandlerRan(q)
      /\ q.access = NoCookie
      /\ q.refresh = NoCookie

\* C18: when the user_profiles lookup returns an error or throws, the request
\* is redirected to plain /login, without the inactive or unauthorized
\* indicator, and the handler does not run.
C18_ProfileLookupFailureToPlainLogin ==
  \A r \in ReqIds :
    LET q == reqs[r] IN
    (Finished(q) /\ (InTrace(q, "getProfile->error") \/ InTrace(q, "getProfile->throw"))) =>
      /\ q.redirect = "/login"
      /\ ~HandlerRan(q)

\* C19: a denial for an inactive profile or for role viewer leaves both session
\* cookies in place; and when the same path is requested again with those
\* cookies, the token is still accepted and the profile has meanwhile become
\* active with role editor or admin, the lookup admits the request.
C19_DenialKeepsSessionForLaterAdmission ==
  /\ [](\A r \in ReqIds :
          (reqs[r].pc = "done" /\ reqs[r].redirect \in StandingDenials) =>
             (reqs[r].sentAccess \in Tokens /\ CookiesUntouched(reqs[r])))
  /\ [][\A r \in ReqIds :
          (/\ reqs[r].prev = "denied"
           /\ reqs[r].pc = "awaitProfile"
           /\ InTrace(reqs'[r], "getProfile->data")
           /\ profiles[reqs[r].user].is_active
           /\ profiles[reqs[r].user].role \in {"editor", "admin"}) =>
             /\ HandlerRan(reqs'[r])
             /\ reqs'[r].redirect = "none"
             /\ reqs'[r].handlerUser = reqs[r].user
             /\ CookiesUntouched(reqs'[r])]_vars

C19_Witness ==
  \E r \in ReqIds :
    /\ reqs[r].prev = "denied"
    /\ reqs[r].pc = "done"
    /\ HandlerRan(reqs[r])
    /\ reqs[r].redirect = "none"
    /\ reqs[r].access \in Tokens

\* C20: a request whose token auth.getUser rejects is redirected to /login, and
\* the same request made again, whether with the cookies as first sent (the
\* token not accepted this time either) or with the cookie jar the first run
\* left, is redirected to /login again.
C20_RejectedTokenRedirectIdempotent ==
  \A r \in ReqIds :
    LET q == reqs[r] IN
    /\ (q.pc = "done" /\ InTrace(q, "getUser->error")) => q.redirect = "/login"
    /\ (q.prev = "rejected" /\ q.pc # "start" /\ ~InTrace(q, "getUser->user")
        /\ q.pc # "awaitGetUser") =>
          (q.pc = "done" /\ q.redirect = "/login" /\ ~HandlerRan(q))

C20_Witness ==
  \E r \in ReqIds :
    /\ reqs[r].prev = "rejected"
    /\ reqs[r].pc = "done"
    /\ reqs[r].sentAccess = NoCookie
    /\ reqs[r].sentRefresh = NoCookie
    /\ reqs[r].redirect = "/login"

\* C21: on a path that starts with neither /cms-admin nor /admin the
\* middleware makes no authentication check, whatever cookies came with the
\* request: no call to the Credential Store or to user_profiles, no cookie
\* deleted, nothing put in context.locals, no redirect, and the handler is
\* called exactly once.
C21_UnprotectedPathGoesStraightToHandler ==
  \A r \in ReqIds :
    LET q == reqs[r] IN
    (~StartsWithProtectedPrefix(q.path) /\ q.pc \in {"awaitNext", "done"}) =>
      /\ q.trace = <<"next">>
      /\ q.redirect = "none"
      /\ CookiesUntouched(q)
      /\ q.user = NULL
      /\ q.localsUser = NULL /\ q.localsProfile = NoLocalsProfile
      /\ q.handlerUser = NULL /\ q.handlerProfile = NoLocalsProfile

C21_Witness ==
  \E r \in ReqIds :
    /\ reqs[r].path = "/blog/post"
    /\ reqs[r].sentAccess = "tok-bad"
    /\ reqs[r].sentRefresh = "refresh"
    /\ reqs[r].pc = "done"
    /\ NextCalls(reqs[r]) = 1

Calls(req, ev) == Cardinality({i \in DOMAIN req.trace : req.trace[i] = ev})
Before(req, ev1, ev2) ==
  \A j \in DOMAIN req.trace :
    req.trace[j] = ev2 => \E i \in 1..(j - 1) : req.trace[i] = ev1

\* C27: one request makes at most one auth.getUser call and at most one
\* user_profiles lookup; the lookup is made only after getUser has returned a
\* user; and neither call is made on an unprotected path or without an
\* sb-access-token cookie.
C27_AtMostTwoSequentialCalls ==
  \A r \in ReqIds :
    LET q == reqs[r] IN
    /\ Calls(q, "getUser") <= 1
    /\ Calls(q, "getProfile") <= 1
    /\ Before(q, "getUser->user", "getProfile")
    /\ (~StartsWithProtectedPrefix(q.path) \/ q.sentAccess = NoCookie) =>
         (Calls(q, "getUser") = 0 /\ Calls(q, "getProfile") = 0)

C27_Witness ==
  \E r \in ReqIds :
    /\ reqs[r].pc = "done"
    /\ reqs[r].trace = <<"getUser", "getUser->user", "getProfile",
                         "getProfile->data", "next">>

(***************************************************************************)
(* Reads and writes of content, continued                                  *)
(***************************************************************************)
ActiveSections(page) ==
  {id \in RowIds :
     /\ rows[id].tbl = "page_content_sections"
     /\ PageOf(id) = page
     /\ rows[id].is_active = TRUE}

\* C22: a read with no identity succeeds for active sections: called with the
\* anon key, getPageContentSections returns every active section of the page
\* asked for (and nothing else), the SELECT policies admitting the anon role
\* for each row with is_active true.
C22_AnonReadsActiveSections ==
  /\ \A page \in Pages : getPageContentSections(ANON, page) = ActiveSections(page)
  /\ \A id \in RowIds :
       (rows[id].tbl = "page_content_sections" /\ rows[id].is_active = TRUE) =>
          CanSelect(ANON, "page_content_sections", rows[id])

C22_Witness ==
  /\ AllApplied
  /\ \E id \in RowIds :
       /\ rows[id].tbl = "page_content_sections"
       /\ rows[id].created_by = "U1"
       /\ id \in getPageContentSections(ANON, PageOf(id))

\* C23: with every migration applied, the anon role can read neither a
\* section with is_active false nor a template with is_public false.
C23_AnonReadsOnlyActiveContent ==
  AllApplied =>
    \A id \in RowIds :
      /\ (rows[id].tbl = "page_content_sections" /\ rows[id].is_active = FALSE) =>
            ~CanSelect(ANON, "page_content_sections", rows[id])
      /\ (rows[id].tbl = "content_templates" /\ rows[id].is_public = FALSE) =>
            ~CanSelect(ANON, "content_templates", rows[id])

\* a row of a blog table; its policies read none of its columns
BlogRow == [id |-> 1]

\* C24: an authenticated actor whose profile has role viewer is permitted no
\* INSERT, UPDATE or DELETE on posts, authors, categories, tags, post_tags,
\* sections, SEO content or templates.
C24_ViewerCannotModifyData ==
  \A u \in Users :
    (HasProfile(u) /\ profiles[u].role = "viewer") =>
      /\ \A tbl \in BlogTables :
           /\ ~CanInsert(u, tbl, BlogRow, FALSE)
           /\ ~CanUpdate(u, tbl, BlogRow, BlogRow)
           /\ ~CanDelete(u, tbl, BlogRow)
      /\ \A new \in ContentRow : ~CanInsert(u, new.tbl, new, FALSE)
      /\ \A row \in ExistingRows :
           /\ ~CanDelete(u, row.tbl, row)
           /\ \A new \in SameTable(row.tbl) : ~CanUpdate(u, row.tbl, row, new)

\* C25: in every reachable state no content row has created_by equal to the id
\* of a profile whose role is viewer.
C25_NoRowOwnedByViewer ==
  \A id \in RowIds :
    (rows[id] # NoRow /\ rows[id].created_by \in Users) =>
       profiles[rows[id].created_by].role # "viewer"

\* C26: after every successful update of a content row its updated_by is the
\* id of the actor the update was made as, whatever the caller passed.
C26_UpdatedByIsTheUpdater ==
  [][\A r \in DOMAIN reqs :
       (reqs[r].dbOp = "none" /\ reqs'[r].dbOp = "update") =>
          rows'[reqs'[r].dbRow].updated_by = Uid(reqs'[r].dbActor)]_vars

(***************************************************************************)
(* Requests in flight together, and the actor of a handler's statements    *)
(***************************************************************************)
\* C28: with requests interleaved in any way, the identity and profile a
\* handler sees are those of its own request's token, and two requests with
\* the same path, the same cookies and the same answers from the stores end
\* the same way: nothing of one request shows in another.
C28_RequestsAreIndependent ==
  /\ \A r \in DOMAIN reqs :
       HandlerRan(reqs[r]) =>
         /\ reqs[r].handlerUser = TokenOwner(reqs[r].sentAccess)
         /\ reqs[r].handlerProfile =
              [role |-> OwnerProfile(reqs[r]).role,
               is_active |-> OwnerProfile(reqs[r]).is_active]
  /\ \A r1, r2 \in DOMAIN reqs :
       (/\ reqs[r1].pc = "done" /\ reqs[r2].pc = "done"
        /\ reqs[r1].path = reqs[r2].path
        /\ reqs[r1].sentAccess = reqs[r2].sentAccess
        /\ reqs[r1].sentRefresh = reqs[r2].sentRefresh
        /\ reqs[r1].trace = reqs[r2].trace) => reqs[r1] = reqs[r2]

C28_Witness ==
  \E r1, r2 \in DOMAIN reqs :
    /\ r1 # r2
    /\ reqs[r1].pc = "awaitNext" /\ reqs[r1].handlerUser = "U1"
    /\ reqs[r2].pc = "awaitNext" /\ reqs[r2].handlerUser = "U2"

\* C29: a statement that the handler of an admitted request sends through
\* createContentSection, updateContentSection, deleteContentSection or
\* upsertPageSEOContent is evaluated by the row policies as the identity the
\* middleware attached to the request.
C29_HandlerStatementsRunAsRequestIdentity ==
  \A r \in DOMAIN reqs :
    reqs[r].dbOp # "none" => reqs[r].dbActor = reqs[r].localsUser

(***************************************************************************)
(* The session cookies in the browser                                      *)
(***************************************************************************)
Held(cookie) == cookie # NoJarCookie
Attributes(cookie) ==
  [path |-> cookie.path, maxAge |-> cookie.maxAge, httpOnly |-> cookie.httpOnly,
   sameSite |-> cookie.sameSite]

\* C30: from an empty jar on, sb-access-token is held exactly when
\* sb-refresh-token is held, both then with path /, httpOnly, sameSite lax and
\* maxAge 604800; and no step sets or deletes one of the two without the other.
C30_SessionCookiesComeAndGoTogether ==
  /\ [](/\ Held(cookies.access) <=> Held(cookies.refresh)
        /\ Held(cookies.access) =>
             /\ Attributes(cookies.access) = Attributes(cookies.refresh)
             /\ Attributes(cookies.access) =
                  [path |-> "/", maxAge |-> 604800, httpOnly |-> TRUE,
                   sameSite |-> "lax"])
  /\ [][/\ (Held(cookies.access) /\ ~Held(cookies'.access)) =>
             (Held(cookies.refresh) /\ ~Held(cookies'.refresh))
        /\ (Held(cookies.refresh) /\ ~Held(cookies'.refresh)) =>
             (Held(cookies.access) /\ ~Held(cookies'.access))
        /\ (~Held(cookies.access) /\ Held(cookies'.access)) =>
             (~Held(cookies.refresh) /\ Held(cookies'.refresh))
        /\ (~Held(cookies.refresh) /\ Held(cookies'.refresh)) =>
             (~Held(cookies.access) /\ Held(cookies'.access))]_vars

\* the jar is empty again after the middleware rejected the token it held
C30_Witness ==
  /\ cookies = EmptyJar
  /\ \E r \in ReqIds :
       /\ reqs[r].pc = "closed"
       /\ reqs[r].sentAccess \in Tokens
       /\ reqs[r].sentRefresh = "refresh"
       /\ InTrace(reqs[r], "deleteAccess")
       /\ InTrace(reqs[r], "deleteRefresh")
====
